---------------------------- MODULE Spec2Model ----------------------------
(***************************************************************************)
(* A model of the MariaDB binlog parser (src/parser.py), its SQL-text      *)
(* classifier (src/utils.py) and the parts of the indexer (src/indexer.py) *)
(* that use them.                                                          *)
(*                                                                         *)
(* A buffer is a sequence of bytes (0..255).  A decoded text is the        *)
(* sequence of its latin-1 code points: bytes.decode("latin-1") maps byte  *)
(* b to the character with code point b, so the two sequences have the     *)
(* same elements.  Python's None is None (a type or a result) or NoName (a *)
(* missing database or table name).                                        *)
(***************************************************************************)
EXTENDS Integers, Sequences, FiniteSets, TLC

VARIABLES
    file,              \* the file read: its signature and the names of its events
    data,              \* BinlogParser.data: the bytes of the file
    pc,                \* where the parser object is: "new", "parse_headers", "ready", "failed"
    position,          \* _parse_headers' local variable position
    headers,           \* BinlogParser.headers (the list _parse_headers is building)
    cur_header_index,  \* BinlogParser.cur_header_index
    table_map,         \* BinlogParser.table_map: table_id -> (db, table)
    runs,              \* one entry per parse_queries() generator: its state and what it has yielded
    exists,            \* the names of the files under base_path
    binlog_model,      \* the rows of BinlogModel: the names recorded as indexed
    query_model,       \* the rows of QueryModel
    call,              \* the call of BinlogIndexer.add or remove made last
    error              \* the exception that left the constructor or the last generator, or None

vars == <<file, data, pc, position, headers, cur_header_index, table_map, runs, error,
          exists, binlog_model, query_model, call>>

\* what belongs to the indexer and its database, not to a parser
indexer == <<exists, binlog_model, query_model, call>>

None == "None"
NoName == <<-1>>

Max(a, b) == IF a >= b THEN a ELSE b
Min(a, b) == IF a <= b THEN a ELSE b

-----------------------------------------------------------------------------
(* Python slicing and struct.unpack *)

\* s[a:b] for a sequence s: a negative index counts from the end, both are
\* clamped to 0..len(s), and the slice is empty when a >= b.
PyIndex(n, k) == IF k < 0 THEN Max(n + k, 0) ELSE Min(k, n)

PySlice(s, a, b) ==
    LET lo == PyIndex(Len(s), a)
        hi == PyIndex(Len(s), b)
    IN  IF lo >= hi THEN <<>> ELSE SubSeq(s, lo + 1, hi)

\* s[-k:] for k > 0
PyTail(s, k) == PySlice(s, -k, Len(s))

RECURSIVE LittleEndian(_)
LittleEndian(bs) ==
    IF bs = <<>> THEN 0 ELSE bs[1] + 256 * LittleEndian(Tail(bs))

-----------------------------------------------------------------------------
(* Regular expressions (re.compile / Pattern.search), as a backtracking    *)
(* matcher.  Match(todo, s, i, g) matches the nodes of todo one after the  *)
(* other from offset i of s, with the groups g captured so far, trying the *)
(* alternatives in the order the re module tries them: <<>> when every     *)
(* attempt fails, else <<m>> for the first that succeeds, m.i the offset   *)
(* it ends at and m.g its groups.                                          *)

Whitespace == {9, 10, 11, 12, 13, 28, 29, 30, 31, 32, 133, 160}        \* \s
WordChar == (48..57) \cup (65..90) \cup {95} \cup (97..122)
            \cup {170, 178, 179, 181, 185, 186} \cup (188..190)
            \cup (192..214) \cup (216..246) \cup (248..255)            \* \w
IdentStart == (65..90) \cup (97..122) \cup {95}                        \* [a-zA-Z_]
IdentChar == IdentStart \cup (48..57) \cup {36}                        \* [a-zA-Z0-9_$]
QuotedIdentChar == IdentChar \cup Whitespace                           \* [a-zA-Z0-9_\s$]
QuoteChar == {96, 34}                                                  \* [`"]
AfterTable == Whitespace \cup {59, 41}                                 \* [\s;)]

\* str.upper() of one character; also the folding re.IGNORECASE applies to a
\* pattern letter A-Z, which only a-z and A-Z match in latin-1.
\* (181, 223 and 255 upper-case to text outside latin-1 or of two
\* characters, never to an ASCII letter; they are left as they are.)
Upper(c) ==
    IF c \in 97..122 \/ (c \in 224..254 /\ c # 247) THEN c - 32 ELSE c

UpperStr(s) == [j \in 1..Len(s) |-> Upper(s[j])]

Lit(w) == [k |-> "lit", w |-> w]
One(set) == [k |-> "rep", set |-> set, min |-> 1, max |-> 1]
Plus(set) == [k |-> "rep", set |-> set, min |-> 1, max |-> -1]
Star(set) == [k |-> "rep", set |-> set, min |-> 0, max |-> -1]
Maybe(set) == [k |-> "rep", set |-> set, min |-> 0, max |-> 1]
Cat(xs) == [k |-> "cat", xs |-> xs]
Alt(xs) == [k |-> "alt", xs |-> xs]
Opt(x) == [k |-> "opt", x |-> x]
Grp(n, x) == [k |-> "grp", n |-> n, x |-> x]
Look(x) == [k |-> "look", x |-> x]
Bos == [k |-> "bos"]
Eos == [k |-> "eos"]
WordBoundary == [k |-> "wb"]
Empty == Cat(<<>>)

\* the number of consecutive characters of set from offset i, at most max
\* (no limit when max is negative)
RECURSIVE RunLength(_, _, _, _)
RunLength(set, s, i, max) ==
    IF max # 0 /\ i < Len(s) /\ s[i + 1] \in set
    THEN 1 + RunLength(set, s, i + 1, max - 1)
    ELSE 0

IsWordAt(s, j) == j >= 1 /\ j <= Len(s) /\ s[j] \in WordChar

MatchesLiteral(w, s, i) ==
    i + Len(w) <= Len(s) /\ \A j \in 1..Len(w) : Upper(s[i + j]) = w[j]

RECURSIVE Match(_, _, _, _)
RECURSIVE MatchRepeat(_, _, _, _, _, _)
RECURSIVE MatchAlt(_, _, _, _, _, _)

Match(todo, s, i, g) ==
    IF todo = <<>> THEN <<[i |-> i, g |-> g]>>
    ELSE LET n == todo[1]
             rest == Tail(todo)
         IN  CASE n.k = "lit" ->
                    IF MatchesLiteral(n.w, s, i) THEN Match(rest, s, i + Len(n.w), g)
                    ELSE <<>>
               [] n.k = "rep" ->
                    MatchRepeat(RunLength(n.set, s, i, n.max), n.min, rest, s, i, g)
               [] n.k = "cat" -> Match(n.xs \o rest, s, i, g)
               [] n.k = "alt" -> MatchAlt(n.xs, 1, rest, s, i, g)
               [] n.k = "opt" ->
                    LET taken == Match(<<n.x>> \o rest, s, i, g)
                    IN  IF taken # <<>> THEN taken ELSE Match(rest, s, i, g)
               [] n.k = "grp" ->
                    Match(<<n.x, [k |-> "end", n |-> n.n, start |-> i]>> \o rest, s, i, g)
               [] n.k = "end" ->
                    Match(rest, s, i, [g EXCEPT ![n.n] = SubSeq(s, n.start + 1, i)])
               [] n.k = "look" ->
                    IF Match(<<n.x>>, s, i, g) # <<>> THEN Match(rest, s, i, g) ELSE <<>>
               [] n.k = "bos" -> IF i = 0 THEN Match(rest, s, i, g) ELSE <<>>
               [] n.k = "eos" ->
                    \* $ without re.MULTILINE: the end, or just before a final newline
                    IF i = Len(s) \/ (i = Len(s) - 1 /\ s[Len(s)] = 10)
                    THEN Match(rest, s, i, g) ELSE <<>>
               [] n.k = "wb" ->
                    IF IsWordAt(s, i) # IsWordAt(s, i + 1) THEN Match(rest, s, i, g)
                    ELSE <<>>

\* greedy repetition: r characters first, then fewer, down to min
MatchRepeat(r, min, rest, s, i, g) ==
    IF r < min THEN <<>>
    ELSE LET longest == Match(rest, s, i + r, g)
         IN  IF longest # <<>> THEN longest
             ELSE MatchRepeat(r - 1, min, rest, s, i, g)

\* xs[from] | xs[from+1] | ...
MatchAlt(xs, from, rest, s, i, g) ==
    IF from > Len(xs) THEN <<>>
    ELSE LET first == Match(<<xs[from]>> \o rest, s, i, g)
         IN  IF first # <<>> THEN first
             ELSE MatchAlt(xs, from + 1, rest, s, i, g)

NoGroups == [n \in 1..3 |-> NoName]

\* Pattern.search(s): the match at the leftmost offset that has one; <<>>
\* when there is none, else <<m>> with m.g[n] = m.group(n).
RECURSIVE SearchFrom(_, _, _)
SearchFrom(p, s, i) ==
    IF i > Len(s) THEN <<>>
    ELSE LET m == Match(<<p>>, s, i, NoGroups)
         IN  IF m # <<>> THEN m ELSE SearchFrom(p, s, i + 1)

Search(p, s) == SearchFrom(p, s, 0)

-----------------------------------------------------------------------------
(* src/utils.py *)

K_CREATE == <<67, 82, 69, 65, 84, 69>>                         \* "CREATE"
K_OR == <<79, 82>>                                             \* "OR"
K_REPLACE == <<82, 69, 80, 76, 65, 67, 69>>                    \* "REPLACE"
K_TEMPORARY == <<84, 69, 77, 80, 79, 82, 65, 82, 89>>          \* "TEMPORARY"
K_TABLE == <<84, 65, 66, 76, 69>>                              \* "TABLE"
K_VIEW == <<86, 73, 69, 87>>                                   \* "VIEW"
K_IF == <<73, 70>>                                             \* "IF"
K_NOT == <<78, 79, 84>>                                        \* "NOT"
K_EXISTS == <<69, 88, 73, 83, 84, 83>>                         \* "EXISTS"
K_ALTER == <<65, 76, 84, 69, 82>>                              \* "ALTER"
K_DROP == <<68, 82, 79, 80>>                                   \* "DROP"
K_TRUNCATE == <<84, 82, 85, 78, 67, 65, 84, 69>>               \* "TRUNCATE"
K_RENAME == <<82, 69, 78, 65, 77, 69>>                         \* "RENAME"
K_INSERT == <<73, 78, 83, 69, 82, 84>>                         \* "INSERT"
K_IGNORE == <<73, 71, 78, 79, 82, 69>>                         \* "IGNORE"
K_INTO == <<73, 78, 84, 79>>                                   \* "INTO"
K_UPDATE == <<85, 80, 68, 65, 84, 69>>                         \* "UPDATE"
K_LOW_PRIORITY == <<76, 79, 87, 95, 80, 82, 73, 79, 82, 73, 84, 89>>  \* "LOW_PRIORITY"
K_DELETE == <<68, 69, 76, 69, 84, 69>>                         \* "DELETE"
K_FROM == <<70, 82, 79, 77>>                                   \* "FROM"
K_SELECT == <<83, 69, 76, 69, 67, 84>>                         \* "SELECT"
K_GRANT == <<71, 82, 65, 78, 84>>                              \* "GRANT"
K_REVOKE == <<82, 69, 86, 79, 75, 69>>                         \* "REVOKE"
K_LOCK == <<76, 79, 67, 75>>                                   \* "LOCK"
K_UNLOCK == <<85, 78, 76, 79, 67, 75>>                         \* "UNLOCK"
K_COMMIT == <<67, 79, 77, 77, 73, 84>>                         \* "COMMIT"
K_ROLLBACK == <<82, 79, 76, 76, 66, 65, 67, 75>>               \* "ROLLBACK"

\* KEYWORD\s+
Kw(w) == Cat(<<Lit(w), Plus(Whitespace)>>)

\* the statement prefixes of DB_TABLE_NAME_PATTERN, one per line of the source
StatementPrefix ==
    Alt(<<
        Cat(<<Kw(K_CREATE), Opt(Cat(<<Kw(K_OR), Kw(K_REPLACE)>>)), Opt(Kw(K_TEMPORARY)),
              Alt(<<Lit(K_TABLE), Lit(K_VIEW)>>), Plus(Whitespace),
              Opt(Cat(<<Kw(K_IF), Kw(K_NOT), Kw(K_EXISTS)>>))>>),
        Cat(<<Kw(K_ALTER), Alt(<<Lit(K_TABLE), Lit(K_VIEW)>>), Plus(Whitespace)>>),
        Cat(<<Kw(K_DROP), Opt(Kw(K_TEMPORARY)), Alt(<<Lit(K_TABLE), Lit(K_VIEW)>>),
              Plus(Whitespace), Opt(Cat(<<Kw(K_IF), Kw(K_EXISTS)>>))>>),
        Cat(<<Kw(K_TRUNCATE), Opt(Kw(K_TABLE))>>),
        Cat(<<Kw(K_RENAME), Kw(K_TABLE)>>),
        Cat(<<Kw(K_INSERT), Opt(Kw(K_IGNORE)), Opt(Kw(K_INTO))>>),
        Cat(<<Kw(K_REPLACE), Opt(Kw(K_INTO))>>),
        Cat(<<Kw(K_UPDATE), Opt(Kw(K_IGNORE)),
              Opt(Alt(<<Plus(Whitespace),
                        Cat(<<Plus(Whitespace), Lit(K_LOW_PRIORITY), Plus(Whitespace)>>)>>))>>),
        Cat(<<Kw(K_DELETE), Opt(Kw(K_IGNORE)), Opt(Kw(K_FROM))>>)
    >>)

DB_TABLE_NAME_PATTERN ==
    Cat(<<
        StatementPrefix,
        Star(Whitespace),
        \* optional database/schema: group 1, quotes included
        Opt(Cat(<<Grp(1, Cat(<<Maybe(QuoteChar), One(IdentStart), Star(IdentChar),
                                Maybe(QuoteChar)>>)),
                  Lit(<<46>>)>>)),
        Alt(<<
            \* with quotes: group 2
            Cat(<<One(QuoteChar), Grp(2, Cat(<<One(IdentStart), Star(QuotedIdentChar)>>)),
                  One(QuoteChar)>>),
            \* single word table name: group 3
            Grp(3, Cat(<<One(IdentStart), Star(IdentChar)>>))
        >>),
        Look(Alt(<<One(AfterTable), Eos>>))
    >>)

\* returns (match.group(1), match.group(2)), or (None, None) without a match
parse_db_table_name_from_query(query) ==
    LET m == Search(DB_TABLE_NAME_PATTERN, query)
    IN  IF m # <<>> THEN <<m[1].g[1], m[1].g[2]>> ELSE <<NoName, NoName>>

DDL_QUERY_PATTERN ==
    Cat(<<Bos, WordBoundary,
          Alt(<<Lit(K_CREATE), Lit(K_ALTER), Lit(K_DROP), Lit(K_TRUNCATE), Lit(K_RENAME),
                Lit(K_GRANT), Lit(K_REVOKE), Lit(K_LOCK), Lit(K_UNLOCK)>>),
          WordBoundary>>)

\* the third alternative of the group is empty
TCL_QUERY_PATTERN ==
    Cat(<<Bos,
          Alt(<<Cat(<<WordBoundary, Lit(K_COMMIT), WordBoundary>>),
                Cat(<<WordBoundary, Lit(K_ROLLBACK), WordBoundary>>),
                Empty>>)>>)

\* type_of_query without its last test: what is not DML or DDL has no type
type_of_query_WithoutTcl(query) ==
    IF Len(query) < 6 THEN None
    ELSE IF UpperStr(PySlice(query, 0, 6)) = K_INSERT THEN "INSERT"
    ELSE IF UpperStr(PySlice(query, 0, 6)) = K_UPDATE THEN "UPDATE"
    ELSE IF UpperStr(PySlice(query, 0, 6)) = K_DELETE THEN "DELETE"
    ELSE IF UpperStr(PySlice(query, 0, 6)) = K_SELECT THEN "SELECT"
    ELSE IF UpperStr(PySlice(query, 0, 7)) = K_REPLACE THEN "REPLACE"
    ELSE IF Search(DDL_QUERY_PATTERN, PySlice(query, 0, 10)) # <<>> THEN "DDL"
    ELSE None

type_of_query(query) ==
    IF Len(query) < 6 THEN None
    ELSE IF UpperStr(PySlice(query, 0, 6)) \in {K_INSERT, K_UPDATE, K_DELETE, K_SELECT}
    THEN CASE UpperStr(PySlice(query, 0, 6)) = K_INSERT -> "INSERT"
           [] UpperStr(PySlice(query, 0, 6)) = K_UPDATE -> "UPDATE"
           [] UpperStr(PySlice(query, 0, 6)) = K_DELETE -> "DELETE"
           [] UpperStr(PySlice(query, 0, 6)) = K_SELECT -> "SELECT"
    ELSE IF UpperStr(PySlice(query, 0, 7)) = K_REPLACE THEN "REPLACE"
    ELSE IF Search(DDL_QUERY_PATTERN, PySlice(query, 0, 10)) # <<>> THEN "DDL"
    ELSE IF Search(TCL_QUERY_PATTERN, PySlice(query, 0, 10)) # <<>> THEN "TCL"
    ELSE None

-----------------------------------------------------------------------------
(* src/parser.py: constants and decoders.  A decoder gives [ok |-> TRUE,   *)
(* v |-> the object] or, when it raises, [ok |-> FALSE, exc |-> ...].      *)

MagicNumber == <<254, 98, 105, 110>>
FormatDescriptionEvent == 15
QueryEvent == 2
AnnotateRowsEvent == 160
TableMapEvent == 19
WriteRowsV1Event == 23
UpdateRowsV1Event == 24
DeleteRowsV1Event == 25
HeaderSize == 19
ChecksumSize == 4

Raise(exc) == [ok |-> FALSE, exc |-> exc]
Return(v) == [ok |-> TRUE, v |-> v]

\* struct.unpack("<IB4xII2x", data): 19 bytes, or struct.error
EventHeader(bytes, cur_pos) ==
    IF Len(bytes) # HeaderSize THEN Raise("struct.error")
    ELSE Return([position |-> cur_pos,
                 timestamp |-> LittleEndian(SubSeq(bytes, 1, 4)),
                 event_type |-> bytes[5],
                 event_length |-> LittleEndian(SubSeq(bytes, 10, 13)),
                 next_event_position |-> LittleEndian(SubSeq(bytes, 14, 17))])

TableMapEventData(body) ==
    IF Len(PySlice(body, 0, 6)) + 2 # 8 THEN Raise("struct.error")      \* "<Q"
    ELSE IF Len(PySlice(body, 8, 9)) # 1 THEN Raise("struct.error")     \* "!B"
    ELSE LET db_name_len == body[9]
         IN  IF Len(PySlice(body, 10 + db_name_len, 11 + db_name_len)) # 1
             THEN Raise("struct.error")                                 \* "!B"
             ELSE LET table_name_len == body[11 + db_name_len]
                  IN  Return([table_id |-> LittleEndian(PySlice(body, 0, 6) \o <<0, 0>>),
                              db |-> PySlice(body, 9, 9 + db_name_len),
                              table |-> PySlice(body, 11 + db_name_len,
                                                11 + db_name_len + table_name_len)])

AnnotateRowsEventData(body) ==
    LET query_start == 0
        query_end == Len(body) - ChecksumSize
        query == PySlice(body, query_start, query_end)
        names == parse_db_table_name_from_query(query)
    IN  Return([query_start |-> query_start,
                query_end |-> query_end,
                query |-> query,
                query_type |-> type_of_query(query),
                db |-> names[1],
                table |-> names[2]])

QueryEventData(body) ==
    IF Len(PySlice(body, 8, 9)) # 1 THEN Raise("struct.error")          \* "<B"
    ELSE IF Len(PySlice(body, 11, 13)) # 2 THEN Raise("struct.error")   \* "<H"
    ELSE LET db_name_len == body[9]
             status_vars_len == LittleEndian(PySlice(body, 11, 13))
             db_name_start == 13 + status_vars_len
             query_start == db_name_start + db_name_len + 1
             query_end == Len(body) - ChecksumSize
             query == PySlice(body, query_start, query_end)
             names == parse_db_table_name_from_query(query)
             db_name_in_query == names[1]
         IN  Return([db |-> IF db_name_in_query \notin {NoName, <<>>}
                            THEN db_name_in_query
                            ELSE PySlice(body, db_name_start, db_name_start + db_name_len),
                     query_start |-> query_start,
                     query_end |-> query_end,
                     query |-> query,
                     table |-> names[2],
                     query_type |-> type_of_query(query)])

TruncateOver == 500
TruncateHead == 200
TruncateTail == 300
Ellipsis == <<46, 46, 46>>                                             \* "..."

\* the parameters of Query.__init__ (all without a default)
QueryParameters ==
    {"sources", "timestamp", "type", "query", "event_start", "event_length",
     "query_start", "query_end", "related_events_end_pos"}

\* Query.__init__ truncating from 500 characters on, not from 501
Query_TruncateFromLimit(kwargs) ==
    IF DOMAIN kwargs # QueryParameters THEN Raise("TypeError")
    ELSE LET is_truncated == Len(kwargs.query) >= TruncateOver
         IN  Return([sources |-> kwargs.sources,
                     timestamp |-> kwargs.timestamp,
                     type |-> kwargs.type,
                     query |-> IF is_truncated
                               THEN PySlice(kwargs.query, 0, TruncateHead) \o Ellipsis
                                    \o PyTail(kwargs.query, TruncateTail)
                               ELSE kwargs.query,
                     is_truncated |-> is_truncated,
                     query_start |-> kwargs.query_start,
                     query_end |-> kwargs.query_end,
                     event_start |-> kwargs.event_start,
                     event_length |-> kwargs.event_length,
                     related_events_end_pos |-> kwargs.related_events_end_pos])

\* Query(**kwargs): a call binds every keyword to a parameter of __init__, or
\* raises TypeError (an unexpected keyword, or a parameter left without value)
Query(kwargs) ==
    IF DOMAIN kwargs # QueryParameters THEN Raise("TypeError")
    ELSE LET is_truncated == Len(kwargs.query) > TruncateOver
         IN  Return([sources |-> kwargs.sources,
                     timestamp |-> kwargs.timestamp,
                     type |-> kwargs.type,
                     query |-> IF is_truncated
                               THEN PySlice(kwargs.query, 0, TruncateHead) \o Ellipsis
                                    \o PyTail(kwargs.query, TruncateTail)
                               ELSE kwargs.query,
                     is_truncated |-> is_truncated,
                     query_start |-> kwargs.query_start,
                     query_end |-> kwargs.query_end,
                     event_start |-> kwargs.event_start,
                     event_length |-> kwargs.event_length,
                     related_events_end_pos |-> kwargs.related_events_end_pos])

-----------------------------------------------------------------------------
(* The buffers the parser is run on: binlog files written event by event   *)
(* in the layout the decoders above read, and damaged variants of them.    *)

MaxTableMaps == 2     \* table-map events after a statement
MaxRows == 2          \* rows events after a statement
MaxHeaders == 8       \* headers _parse_headers may collect before the model stops it
MaxRuns == 2          \* parse_queries() generators created on one parser

T_INSERT_D2 == <<73, 78, 83, 69, 82, 84, 32, 73, 78, 84, 79, 32, 100, 50, 46, 116, 98, 108,
                 32, 86, 65, 76, 85, 69, 83, 32, 40, 49, 41>>    \* "INSERT INTO d2.tbl VALUES (1)"
T_UPDATE_T == <<85, 80, 68, 65, 84, 69, 32, 116, 32, 83, 69, 84, 32, 120, 61, 49>>
                                                                 \* "UPDATE t SET x=1"
T_UPDATE_QUOTED == <<85, 80, 68, 65, 84, 69, 32, 96, 100, 96, 46, 96, 116, 96, 32, 83, 69, 84,
                     32, 120, 61, 49>>                           \* "UPDATE `d`.`t` SET x=1"
T_REPLACE_T == <<82, 69, 80, 76, 65, 67, 69, 32, 73, 78, 84, 79, 32, 116, 32, 86, 65, 76, 85,
                 69, 83, 32, 40, 49, 41>>                        \* "REPLACE INTO t VALUES (1)"
\* "UPDATE t SET x=1" with more digits after it, n characters in all
LongStatement(n) == T_UPDATE_T \o [j \in 1..(n - Len(T_UPDATE_T)) |-> 48 + (j % 10)]
T_BEGIN == <<66, 69, 71, 73, 78>>                                \* "BEGIN"
N_d1 == <<100, 49>>                                              \* "d1"
N_d2 == <<100, 50>>                                              \* "d2"
N_tbl == <<116, 98, 108>>                                        \* "tbl"
N_d == <<100>>                                                   \* "d"
N_t == <<116>>                                                   \* "t"
N_e == <<101>>                                                   \* "e"
N_u == <<117>>                                                   \* "u"
N_d_quoted == <<96, 100, 96>>                                    \* "`d`"

RECURSIVE ToLittleEndian(_, _)
ToLittleEndian(n, width) ==
    IF width = 0 THEN <<>> ELSE <<n % 256>> \o ToLittleEndian(n \div 256, width - 1)

Checksum == <<222, 173, 190, 239>>
StatusVars == <<0, 0, 0, 0, 0>>

\* timestamp, event type, server id, event length, next event position, flags
HeaderBytes(timestamp, event_type, event_length, next_event_position) ==
    ToLittleEndian(timestamp, 4) \o <<event_type>> \o <<1, 0, 0, 0>>
    \o ToLittleEndian(event_length, 4) \o ToLittleEndian(next_event_position, 4) \o <<0, 0>>

\* thread id, execution time, database name length, error code, status
\* variables (length, bytes), database name, 0, statement, checksum
QueryBody(db, text) ==
    <<7, 0, 0, 0>> \o <<0, 0, 0, 0>> \o <<Len(db)>> \o <<0, 0>>
    \o ToLittleEndian(Len(StatusVars), 2) \o StatusVars \o db \o <<0>> \o text \o Checksum

AnnotateRowsBody(text) == text \o Checksum

\* table id, flags, database name (length, bytes, 0), table name (length,
\* bytes, 0), one column of type LONG, checksum
TableMapBody(table_id, db, table) ==
    ToLittleEndian(table_id, 6) \o <<1, 0>> \o <<Len(db)>> \o db \o <<0>>
    \o <<Len(table)>> \o table \o <<0>> \o <<1, 3, 0>> \o Checksum

\* table id, flags, column count, columns-present bitmap, one row, checksum
RowsBody(table_id) ==
    ToLittleEndian(table_id, 6) \o <<1, 0>> \o <<1, 255, 254, 1, 0, 0, 0>> \o Checksum

\* An event as written: its type, its body, what its header says about its
\* length (the true length plus length_delta) and where its
\* next_event_position points: to the following event, to the event itself
\* ("self"), to the first event of the file ("first"), or 0 ("zero").
Event(event_type, body, next) ==
    [event_type |-> event_type, body |-> body, length_delta |-> 0, next |-> next]

\* an event whose header gives event_length, whatever its true length
EventOfLength(event_type, body, event_length) ==
    [event_type |-> event_type, body |-> body,
     length_delta |-> event_length - (HeaderSize + Len(body)), next |-> "following"]

Events ==
    [Q_INSERT |-> Event(QueryEvent, QueryBody(N_d1, T_INSERT_D2), "following"),
     Q_COMMIT |-> Event(QueryEvent, QueryBody(N_d1, K_COMMIT), "following"),
     Q_ROLLBACK |-> Event(QueryEvent, QueryBody(N_d1, K_ROLLBACK), "following"),
     Q_CUT |-> Event(QueryEvent, <<7, 0, 0, 0, 0, 0, 0, 0, 2, 0, 0>>, "following"),
     A_UPDATE |-> Event(AnnotateRowsEvent, AnnotateRowsBody(T_UPDATE_T), "following"),
     A_UPDATE_QUOTED |->
         Event(AnnotateRowsEvent, AnnotateRowsBody(T_UPDATE_QUOTED), "following"),
     A_REPLACE |-> Event(AnnotateRowsEvent, AnnotateRowsBody(T_REPLACE_T), "following"),
     A_COMMIT |-> Event(AnnotateRowsEvent, AnnotateRowsBody(K_COMMIT), "following"),
     A_BEGIN |-> Event(AnnotateRowsEvent, AnnotateRowsBody(T_BEGIN), "following"),
     TM_1 |-> Event(TableMapEvent, TableMapBody(1, N_d, N_t), "following"),
     TM_2 |-> Event(TableMapEvent, TableMapBody(2, N_e, N_u), "following"),
     TM_1_OTHER |-> Event(TableMapEvent, TableMapBody(1, N_d2, N_tbl), "following"),
     TM_CUT |-> Event(TableMapEvent, <<1, 0, 0>>, "following"),
     ROWS_WRITE |-> Event(WriteRowsV1Event, RowsBody(1), "following"),
     ROWS_UPDATE |-> Event(UpdateRowsV1Event, RowsBody(1), "following"),
     ROWS_DELETE |-> Event(DeleteRowsV1Event, RowsBody(1), "following"),
     FORMAT_DESCRIPTION |-> Event(FormatDescriptionEvent, <<4, 0>> \o Checksum, "following"),
     \* statements of 500, 501 and 700 characters
     A_UPDATE_500 |->
         Event(AnnotateRowsEvent, AnnotateRowsBody(LongStatement(TruncateOver)), "following"),
     A_UPDATE_501 |->
         Event(AnnotateRowsEvent, AnnotateRowsBody(LongStatement(TruncateOver + 1)),
               "following"),
     A_UPDATE_700 |->
         Event(AnnotateRowsEvent,
               AnnotateRowsBody(LongStatement(TruncateOver + TruncateHead)), "following"),
     \* with an event_length below the size of the header
     A_UPDATE_LENGTH_10 |->
         EventOfLength(AnnotateRowsEvent, AnnotateRowsBody(T_UPDATE_T), 10),
     Q_COMMIT_LENGTH_0 |-> EventOfLength(QueryEvent, QueryBody(N_d1, K_COMMIT), 0),
     \* with a body shorter than the checksum, and with an event_length that
     \* reaches past the end of the buffer
     A_BODY_3 |-> Event(AnnotateRowsEvent, <<222, 173, 190>>, "following"),
     A_UPDATE_LENGTH_PAST |->
         EventOfLength(AnnotateRowsEvent, AnnotateRowsBody(T_UPDATE_T),
                       HeaderSize + Len(AnnotateRowsBody(T_UPDATE_T)) + 100),
     \* with a next_event_position that is not the offset of the following event
     A_UPDATE_QUOTED_NEXT_SELF |->
         Event(AnnotateRowsEvent, AnnotateRowsBody(T_UPDATE_QUOTED), "self"),
     A_UPDATE_QUOTED_NEXT_ZERO |->
         Event(AnnotateRowsEvent, AnnotateRowsBody(T_UPDATE_QUOTED), "zero"),
     A_UPDATE_QUOTED_NEXT_FIRST |->
         Event(AnnotateRowsEvent, AnnotateRowsBody(T_UPDATE_QUOTED), "first"),
     Q_COMMIT_NEXT_SELF |-> Event(QueryEvent, QueryBody(N_d1, K_COMMIT), "self"),
     Q_COMMIT_NEXT_ZERO |-> Event(QueryEvent, QueryBody(N_d1, K_COMMIT), "zero"),
     Q_COMMIT_NEXT_FIRST |-> Event(QueryEvent, QueryBody(N_d1, K_COMMIT), "first")]

\* the bytes of the events named in es, written from offset pos on
RECURSIVE EncodeEvents(_, _)
EncodeEvents(es, pos) ==
    IF es = <<>> THEN <<>>
    ELSE LET e == Events[es[1]]
             size == HeaderSize + Len(e.body)
             next == CASE e.next = "following" -> pos + size
                       [] e.next = "self" -> pos
                       [] e.next = "first" -> 4
                       [] e.next = "zero" -> 0
         IN  HeaderBytes(1700000000 + pos, e.event_type, size + e.length_delta, next)
             \o e.body \o EncodeEvents(Tail(es), pos + size)

SeqsUpTo(S, n) == UNION {[1..m -> S] : m \in 0..n}

AnnotateStatements == {"A_UPDATE", "A_UPDATE_QUOTED", "A_REPLACE", "A_COMMIT", "A_BEGIN"}
Statements == {"Q_INSERT", "Q_COMMIT", "Q_ROLLBACK", "Q_CUT"} \cup AnnotateStatements
TableMaps == SeqsUpTo({"TM_1", "TM_2", "TM_CUT"}, MaxTableMaps)
Rows == SeqsUpTo({"ROWS_WRITE", "ROWS_UPDATE", "ROWS_DELETE"}, MaxRows)
Leads == {<<>>, <<"TM_1">>, <<"A_UPDATE_QUOTED">>, <<"Q_COMMIT">>}
Follows == {<<>>, <<"ROWS_UPDATE">>, <<"TM_1", "ROWS_UPDATE">>, <<"TM_CUT">>}
Trails == {<<>>, <<"FORMAT_DESCRIPTION">>}

\* an annotated statement with the table maps and rows events that follow it
Followed ==
    {<<stmt>> \o maps \o rows :
        stmt \in AnnotateStatements, maps \in TableMaps, rows \in Rows}

\* any statement between the events of other statements
Framed ==
    {lead \o <<stmt>> \o follow \o trail :
        lead \in Leads, stmt \in Statements, follow \in Follows, trail \in Trails}

\* files in which a next_event_position does not point to the following event
Damaged ==
    {<<stmt>> \o follow :
        stmt \in {"A_UPDATE_QUOTED_NEXT_SELF", "A_UPDATE_QUOTED_NEXT_ZERO",
                  "Q_COMMIT_NEXT_SELF", "Q_COMMIT_NEXT_ZERO"},
        follow \in Follows}
    \cup {<<first, stmt>> :
        first \in {"FORMAT_DESCRIPTION", "A_UPDATE"},
        stmt \in {"A_UPDATE_QUOTED_NEXT_FIRST", "Q_COMMIT_NEXT_FIRST"}}

\* files with statements at and over the length Query truncates from
Long ==
    {<<"A_UPDATE_500", "A_UPDATE_700">>, <<"A_UPDATE_501", "ROWS_UPDATE">>,
     <<"TM_1", "A_UPDATE_700", "TM_1", "ROWS_UPDATE", "A_UPDATE_500">>}

\* files in which an event_length is below the size of the header
ShortLength ==
    {<<"A_UPDATE_LENGTH_10">>, <<"A_UPDATE_LENGTH_10", "ROWS_UPDATE">>,
     <<"A_UPDATE", "Q_COMMIT_LENGTH_0">>}

\* files in which a body has no room for the checksum, or an event_length
\* reaches past the end of the buffer
OutOfFrame ==
    {<<"A_BODY_3", "ROWS_UPDATE">>, <<"A_UPDATE_LENGTH_PAST">>}

\* files in which a table id is bound a second time, to another table
Redefined ==
    {<<"A_UPDATE", "TM_1", "TM_1_OTHER", "ROWS_UPDATE">>,
     <<"A_UPDATE", "TM_1_OTHER", "TM_2", "TM_1">>,
     <<"A_UPDATE", "TM_1", "ROWS_UPDATE", "A_REPLACE", "TM_1_OTHER", "ROWS_WRITE">>}

\* the files read: binlog files, and files that are not (empty, cut inside
\* the signature, or with another signature)
Files ==
    {[signature |-> "binlog", events |-> es] :
        es \in {<<>>} \cup Followed \cup Framed \cup Damaged \cup Long \cup ShortLength
                \cup Redefined \cup OutOfFrame}
    \cup {[signature |-> "none", events |-> <<>>],
          [signature |-> "cut", events |-> <<>>],
          [signature |-> "other", events |-> <<"Q_COMMIT">>]}

\* the bytes of file f
FileBytes(f) ==
    CASE f.signature = "binlog" -> MagicNumber \o EncodeEvents(f.events, 4)
      [] f.signature = "other" -> <<254, 98, 105, 111>> \o EncodeEvents(f.events, 4)
      [] f.signature = "cut" -> <<254, 98, 105>>
      [] f.signature = "none" -> <<>>

-----------------------------------------------------------------------------
(* src/parser.py: BinlogParser *)

ALLOWED_EVENT_TYPES ==
    {TableMapEvent, QueryEvent, AnnotateRowsEvent,
     WriteRowsV1Event, UpdateRowsV1Event, DeleteRowsV1Event}

RowsEventTypes == {WriteRowsV1Event, UpdateRowsV1Event, DeleteRowsV1Event}

\* the properties current_header and next_header, at cursor cur: <<>> is None
current_header_at(cur) ==
    IF cur < Len(headers) THEN <<headers[cur + 1]>> ELSE <<>>

next_header_at(cur) ==
    IF cur + 1 < Len(headers) THEN <<headers[cur + 2]>> ELSE <<>>

_get_body(header) ==
    PySlice(data, header.position + HeaderSize, header.position + header.event_length)

\* self.table_map[table_id] = (db, table)
SetItem(tm, key, value) ==
    [k \in DOMAIN tm \cup {key} |-> IF k = key THEN value ELSE tm[k]]

\* "read all the table map events": the first while loop of the AnnotateRows
\* branch, from cursor cur with cache tm and the ids collected so far
RECURSIVE ReadTableMaps(_, _, _, _)
ReadTableMaps(cur, tm, ids, move) ==
    LET nh == next_header_at(cur)
    IN  IF nh # <<>> /\ nh[1].event_type = TableMapEvent
        THEN LET d == TableMapEventData(_get_body(nh[1]))
             IN  IF ~d.ok
                 THEN [cur |-> cur, tm |-> tm, ids |-> ids, move |-> move, exc |-> d.exc]
                 ELSE ReadTableMaps(cur + 1,
                                    SetItem(tm, d.v.table_id, <<d.v.db, d.v.table>>),
                                    Append(ids, d.v.table_id),
                                    FALSE)
        ELSE [cur |-> cur, tm |-> tm, ids |-> ids, move |-> move, exc |-> None]

\* the Rows event after the table maps not looked at
RowsQueryType_Ignored(cur) == None

\* the type the first Rows event after the table maps gives, or None
RowsQueryType(cur) ==
    LET nh == next_header_at(cur)
    IN  IF nh = <<>> THEN None
        ELSE IF nh[1].event_type = WriteRowsV1Event THEN "INSERT"
        ELSE IF nh[1].event_type = UpdateRowsV1Event THEN "UPDATE"
        ELSE IF nh[1].event_type = DeleteRowsV1Event THEN "DELETE"
        ELSE None

\* the second while loop left out
ReadRows_NoLoop(cur, move) == [cur |-> cur, move |-> move]

\* "keep reading all the rows events": the second while loop
RECURSIVE ReadRows(_, _)
ReadRows(cur, move) ==
    LET nh == next_header_at(cur)
    IN  IF nh # <<>> /\ nh[1].event_type \in RowsEventTypes
        THEN ReadRows(cur + 1, FALSE)
        ELSE [cur |-> cur, move |-> move]

\* the sources taken from the text alone
Sources_FromText(tm, ids, annotateRowsData) ==
    <<<<annotateRowsData.db, annotateRowsData.table>>>>

\* the sources of an AnnotateRows statement
Sources(tm, ids, annotateRowsData) ==
    IF Len(ids) = 0
    THEN <<<<annotateRowsData.db, annotateRowsData.table>>>>
    ELSE [j \in 1..Len(ids) |-> <<tm[ids[j]][1], tm[ids[j]][2]>>]

\* what a call of _parse_event leaves: the cursor, the cache, the value
\* returned (<<>> for None, else <<query>>) and the exception raised, if any
Outcome(cur, tm, result, exc) ==
    [cur |-> cur, tm |-> tm, result |-> result, exc |-> exc]

\* move_to_next_header() whatever the flag
Advance_Always(cur, move) == cur + 1

\* move_to_next_header() without its increment
Advance_Never(cur, move) == cur

\* move_to_next_header(), when the flag of that name is still set
Advance(cur, move) == IF move THEN cur + 1 ELSE cur

ParseQueryEvent(header, cur, tm) ==
    LET event == QueryEventData(_get_body(header))
    IN  IF ~event.ok THEN Outcome(cur, tm, <<>>, event.exc)
        ELSE IF event.v.query_type # "TCL"
        THEN LET q == Query([database |-> event.v.db,
                             table |-> event.v.table,
                             timestamp |-> header.timestamp,
                             type |-> event.v.query_type,
                             event_start |-> header.position,
                             event_length |-> header.event_length,
                             query |-> event.v.query,
                             query_start |-> event.v.query_start + header.position + HeaderSize,
                             query_end |-> event.v.query_end + header.position + HeaderSize,
                             related_events_end_pos |-> header.position + header.event_length])
             IN  IF ~q.ok THEN Outcome(cur, tm, <<>>, q.exc)
                 ELSE Outcome(Advance(cur, TRUE), tm, <<q.v>>, None)
        ELSE Outcome(Advance(cur, TRUE), tm, <<>>, None)

\* the AnnotateRowsEvent branch giving the end of the AnnotateRows event itself
ParseAnnotateRowsEvent_OwnEnd(header, cur, tm) ==
    LET annotateRowsData == AnnotateRowsEventData(_get_body(header)).v
        maps == ReadTableMaps(cur, tm, <<>>, TRUE)
        rows_type == RowsQueryType(maps.cur)
        query_type == IF rows_type = None THEN annotateRowsData.query_type ELSE rows_type
        rows == ReadRows(maps.cur, maps.move)
        ch == current_header_at(rows.cur)
    IN  IF maps.exc # None THEN Outcome(maps.cur, maps.tm, <<>>, maps.exc)
        ELSE IF query_type # None
        THEN LET q == Query([sources |-> Sources(maps.tm, maps.ids, annotateRowsData),
                             timestamp |-> header.timestamp,
                             type |-> query_type,
                             event_start |-> header.position,
                             event_length |-> header.event_length,
                             query |-> annotateRowsData.query,
                             query_start |-> annotateRowsData.query_start
                                             + header.position + HeaderSize,
                             query_end |-> annotateRowsData.query_end
                                           + header.position + HeaderSize,
                             related_events_end_pos |->
                                 header.position + header.event_length])
             IN  IF ~q.ok THEN Outcome(rows.cur, maps.tm, <<>>, q.exc)
                 ELSE Outcome(Advance(rows.cur, rows.move), maps.tm, <<q.v>>, None)
        ELSE Outcome(Advance(rows.cur, rows.move), maps.tm, <<>>, None)

ParseAnnotateRowsEvent(header, cur, tm) ==
    LET annotateRowsData == AnnotateRowsEventData(_get_body(header)).v
        maps == ReadTableMaps(cur, tm, <<>>, TRUE)
        rows_type == RowsQueryType(maps.cur)
        query_type == IF rows_type = None THEN annotateRowsData.query_type ELSE rows_type
        rows == ReadRows(maps.cur, maps.move)
        ch == current_header_at(rows.cur)
    IN  IF maps.exc # None THEN Outcome(maps.cur, maps.tm, <<>>, maps.exc)
        ELSE IF query_type # None
        THEN LET q == Query([sources |-> Sources(maps.tm, maps.ids, annotateRowsData),
                             timestamp |-> header.timestamp,
                             type |-> query_type,
                             event_start |-> header.position,
                             event_length |-> header.event_length,
                             query |-> annotateRowsData.query,
                             query_start |-> annotateRowsData.query_start
                                             + header.position + HeaderSize,
                             query_end |-> annotateRowsData.query_end
                                           + header.position + HeaderSize,
                             related_events_end_pos |->
                                 IF ch # <<>>
                                 THEN ch[1].position + ch[1].event_length
                                 ELSE header.position + header.event_length])
             IN  IF ~q.ok THEN Outcome(rows.cur, maps.tm, <<>>, q.exc)
                 ELSE Outcome(Advance(rows.cur, rows.move), maps.tm, <<q.v>>, None)
        ELSE Outcome(Advance(rows.cur, rows.move), maps.tm, <<>>, None)

\* _parse_event caching a TableMapEvent it meets as the current header
_parse_event_CachingTableMaps(header, cur, tm) ==
    IF header.event_type \notin ALLOWED_EVENT_TYPES
    THEN Outcome(cur + 1, tm, <<>>, None)
    ELSE IF header.event_type = QueryEvent THEN ParseQueryEvent(header, cur, tm)
    ELSE IF header.event_type = AnnotateRowsEvent THEN ParseAnnotateRowsEvent(header, cur, tm)
    ELSE IF header.event_type = TableMapEvent /\ TableMapEventData(_get_body(header)).ok
    THEN LET d == TableMapEventData(_get_body(header)).v
         IN  Outcome(cur + 1, SetItem(tm, d.table_id, <<d.db, d.table>>), <<>>, None)
    ELSE Outcome(Advance(cur, TRUE), tm, <<>>, None)

_parse_event(header, cur, tm) ==
    IF header.event_type \notin ALLOWED_EVENT_TYPES
    THEN Outcome(cur + 1, tm, <<>>, None)
    ELSE IF header.event_type = QueryEvent THEN ParseQueryEvent(header, cur, tm)
    ELSE IF header.event_type = AnnotateRowsEvent THEN ParseAnnotateRowsEvent(header, cur, tm)
    ELSE Outcome(Advance(cur, TRUE), tm, <<>>, None)

-----------------------------------------------------------------------------
(* The state machine *)

NoError == [exc |-> None, offset |-> -1]

\* the binlog files the indexer is asked about: the first is the file read,
\* under base_path until it is deleted; no file has the second name
BinlogNames == {"mariadb-bin.000001", "mariadb-bin.000002"}
NoCall == [op |-> "none", name |-> "", state |-> "none", exc |-> None]

Init ==
    /\ file \in Files
    /\ data = FileBytes(file)
    /\ exists = {"mariadb-bin.000001"}
    /\ binlog_model = <<>>
    /\ query_model = <<>>
    /\ call = NoCall
    /\ pc = "new"
    /\ position = 0
    /\ headers = <<>>
    /\ cur_header_index = 0
    /\ table_map = <<>>
    /\ runs = <<>>
    /\ error = NoError

\* BinlogParser.__init__ without the test of the signature
Construct_WithoutSignatureTest ==
    /\ pc = "new"
    /\ pc' = "parse_headers"
    /\ cur_header_index' = 0
    /\ table_map' = <<>>
    /\ headers' = <<>>
    /\ position' = 4
    /\ UNCHANGED <<file, data, indexer, runs, error>>

\* BinlogParser.__init__, up to the call of _parse_headers
Construct ==
    /\ pc = "new"
    /\ IF Len(data) < 4 \/ PySlice(data, 0, 4) # MagicNumber
       THEN /\ pc' = "failed"
            /\ error' = [exc |-> "ValueError", offset |-> -1]
            /\ UNCHANGED <<position, headers, cur_header_index, table_map>>
       ELSE /\ pc' = "parse_headers"
            /\ cur_header_index' = 0
            /\ table_map' = <<>>
            /\ headers' = <<>>
            /\ position' = 4
            /\ UNCHANGED error
    /\ UNCHANGED <<file, data, indexer, runs>>

\* one test of the while condition of _parse_headers and, when it holds, one
\* iteration; the constructor returns when the loop is left.  (The model
\* stops a loop that has collected MaxHeaders headers.)
ParseHeadersStep ==
    /\ pc = "parse_headers"
    /\ IF position + HeaderSize <= Len(data)
       THEN /\ Len(headers) < MaxHeaders
            /\ \E header \in {EventHeader(PySlice(data, position, position + HeaderSize),
                                          position)} :
                IF ~header.ok
                THEN /\ pc' = "failed"
                     /\ error' = [exc |-> "ValueError", offset |-> position]
                     /\ UNCHANGED <<headers, position>>
                ELSE /\ headers' = Append(headers, header.v)
                     /\ IF header.v.next_event_position = 0
                        THEN pc' = "ready" /\ UNCHANGED position
                        ELSE position' = header.v.next_event_position /\ UNCHANGED pc
                     /\ UNCHANGED error
       ELSE /\ pc' = "ready"
            /\ UNCHANGED <<headers, position, error>>
    /\ UNCHANGED <<file, data, indexer, cur_header_index, table_map, runs>>

\* the state of the generator created last ("none" before the first)
Generator == IF runs = <<>> THEN "none" ELSE runs[Len(runs)].state

\* parse_queries() starting over: the cursor and the cache reset
CallParseQueries_Replay ==
    /\ pc = "ready"
    /\ Len(runs) < MaxRuns
    /\ Generator # "running"
    /\ runs' = Append(runs, [state |-> "created", out |-> <<>>])
    /\ cur_header_index' = 0
    /\ table_map' = <<>>
    /\ UNCHANGED <<file, data, indexer, pc, position, headers, error>>

\* parser.parse_queries(): a new generator, which has not run yet.  The
\* caller is not inside a next() of the generator it has.
CallParseQueries ==
    /\ pc = "ready"
    /\ Len(runs) < MaxRuns
    /\ Generator # "running"
    /\ runs' = Append(runs, [state |-> "created", out |-> <<>>])
    /\ UNCHANGED <<file, data, indexer, pc, position, headers, cur_header_index, table_map, error>>

\* The generator created last runs one test of `while self.current_header`
\* and, when there is a header, one call of _parse_event: it yields the query
\* ("suspended", until the caller asks for the next), goes on ("running"),
\* ends ("finished") or lets the exception out ("raised").
ParseEventStep ==
    /\ pc = "ready"
    /\ Generator \in {"created", "running", "suspended"}
    /\ LET k == Len(runs)
           ch == current_header_at(cur_header_index)
       IN  IF ch = <<>>
           THEN /\ runs' = [runs EXCEPT ![k].state = "finished"]
                /\ UNCHANGED <<cur_header_index, table_map, error>>
           ELSE \E o \in {_parse_event(ch[1], cur_header_index, table_map)} :
                    /\ cur_header_index' = o.cur
                    /\ table_map' = o.tm
                    /\ IF o.exc # None
                       THEN /\ runs' = [runs EXCEPT ![k].state = "raised"]
                            /\ error' = [exc |-> o.exc, offset |-> -1]
                       ELSE /\ runs' = IF o.result # <<>>
                                       THEN [runs EXCEPT ![k].state = "suspended",
                                                         ![k].out = Append(@, o.result[1])]
                                       ELSE [runs EXCEPT ![k].state = "running"]
                            /\ UNCHANGED error
    /\ UNCHANGED <<file, data, indexer, pc, position, headers>>

Next ==
    \/ Construct
    \/ ParseHeadersStep
    \/ CallParseQueries
    \/ ParseEventStep

Spec == Init /\ [][Next]_vars

-----------------------------------------------------------------------------
(* src/indexer.py: BinlogIndexer over the tables of src/models.py.  A call  *)
(* of add builds its own parser over the bytes of the file and iterates its *)
(* one generator to the end: the parser variables are those of the add      *)
(* under way (the last add, once it is over).                               *)

MaxEvents == 2        \* events in the files the indexer is run on

\* BinlogModel.get_or_none(BinlogModel.name == binlog_name) finds a row
Recorded(name) == \E j \in 1..Len(binlog_model) : binlog_model[j] = name

\* one row for each source of query q
RowsOfQuery(q, binlog_name) ==
    [j \in 1..Len(q.sources) |->
        [timestamp |-> q.timestamp,
         database |-> q.sources[j][1],
         table |-> q.sources[j][2],
         type |-> q.type,
         query |-> q.query,
         is_query_truncated |-> q.is_truncated,
         query_start |-> q.query_start,
         query_end |-> q.query_end,
         event_start |-> q.event_start,
         event_length |-> q.event_length,
         related_events_end_pos |-> q.related_events_end_pos,
         binlog_name |-> binlog_name]]

\* the two for loops of add over the list of queries
RECURSIVE RowsOf(_, _)
RowsOf(queries, binlog_name) ==
    IF queries = <<>> THEN <<>>
    ELSE RowsOfQuery(queries[1], binlog_name) \o RowsOf(Tail(queries), binlog_name)

\* QueryModel.insert_many(rows).execute(), one INSERT statement: the
\* exceptions it may raise (None: it inserts the rows).  database and table
\* are CharFields without null=True, NOT NULL columns that refuse None.  For
\* an empty list peewee has nothing to insert or inserts a row of default
\* values, which the NOT NULL columns refuse: either.
InsertManyOutcomes(rows) ==
    IF \E j \in 1..Len(rows) : rows[j].database = NoName \/ rows[j].table = NoName
    THEN {"IntegrityError"}
    ELSE IF rows = <<>> THEN {None, "IntegrityError"}
    ELSE {None}

\* add(binlog_name) with the lookup of the name in BinlogModel left out
AddCall_WithoutLookup(name) ==
    /\ call.state # "running"
    /\ IF name \notin exists
       THEN /\ call' = [op |-> "add", name |-> name, state |-> "raised",
                        exc |-> "FileNotFoundError"]
            /\ UNCHANGED <<pc, position, headers, cur_header_index, table_map, runs, error>>
       ELSE /\ call' = [op |-> "add", name |-> name, state |-> "running", exc |-> None]
            /\ pc' = "new"
            /\ position' = 0
            /\ headers' = <<>>
            /\ cur_header_index' = 0
            /\ table_map' = <<>>
            /\ runs' = <<>>
            /\ error' = NoError
    /\ UNCHANGED <<file, data, exists, binlog_model, query_model>>

\* add(binlog_name), up to the call of BinlogParser: it returns at once for a
\* recorded name ("skipped"), raises for a file that does not exist, or has
\* read the file and is about to build a parser over its bytes
AddCall(name) ==
    /\ call.state # "running"
    /\ IF Recorded(name)
       THEN /\ call' = [op |-> "add", name |-> name, state |-> "skipped", exc |-> None]
            /\ UNCHANGED <<pc, position, headers, cur_header_index, table_map, runs, error>>
       ELSE IF name \notin exists
       THEN /\ call' = [op |-> "add", name |-> name, state |-> "raised",
                        exc |-> "FileNotFoundError"]
            /\ UNCHANGED <<pc, position, headers, cur_header_index, table_map, runs, error>>
       ELSE /\ call' = [op |-> "add", name |-> name, state |-> "running", exc |-> None]
            /\ pc' = "new"
            /\ position' = 0
            /\ headers' = <<>>
            /\ cur_header_index' = 0
            /\ table_map' = <<>>
            /\ runs' = <<>>
            /\ error' = NoError
    /\ UNCHANGED <<file, data, exists, binlog_model, query_model>>

\* list(parser.parse_queries()): the one generator of add's parser, which
\* list() then resumes until it ends or raises
ListParseQueries ==
    /\ call.state = "running"
    /\ runs = <<>>
    /\ CallParseQueries

\* the rest of add once the list is complete: the rows, insert_many, and
\* BinlogModel.create unless insert_many raised
AddStore ==
    /\ call.state = "running"
    /\ pc = "ready"
    /\ Generator = "finished"
    /\ \E rows \in {RowsOf(runs[1].out, call.name)} :
        \E exc \in InsertManyOutcomes(rows) :
            IF exc = None
            THEN /\ query_model' = query_model \o rows
                 /\ binlog_model' = Append(binlog_model, call.name)
                 /\ call' = [call EXCEPT !.state = "indexed"]
            ELSE /\ call' = [call EXCEPT !.state = "raised", !.exc = exc]
                 /\ UNCHANGED <<query_model, binlog_model>>
    /\ UNCHANGED <<file, data, exists, pc, position, headers, cur_header_index, table_map,
                   runs, error>>

\* the except clause of add: what the constructor or the generator raised
\* goes on to the caller
AddRaise ==
    /\ call.state = "running"
    /\ pc = "failed" \/ Generator = "raised"
    /\ call' = [call EXCEPT !.state = "raised", !.exc = error.exc]
    /\ UNCHANGED <<file, data, exists, binlog_model, query_model, pc, position, headers,
                   cur_header_index, table_map, runs, error>>

\* remove(binlog_name)
Remove(name) ==
    /\ call.state # "running"
    /\ LET OtherName(row) == row # name
           OtherBinlog(row) == row.binlog_name # name
       IN  /\ binlog_model' = SelectSeq(binlog_model, OtherName)
           /\ query_model' = SelectSeq(query_model, OtherBinlog)
    /\ call' = [op |-> "remove", name |-> name, state |-> "returned", exc |-> None]
    /\ UNCHANGED <<file, data, exists, pc, position, headers, cur_header_index, table_map,
                   runs, error>>

\* the server purges a binlog file, between two calls of the indexer
DeleteFile(name) ==
    /\ call.state # "running"
    /\ name \in exists
    /\ exists' = exists \ {name}
    /\ UNCHANGED <<file, data, binlog_model, query_model, call, pc, position, headers,
                   cur_header_index, table_map, runs, error>>

\* the files the indexer is run on
IndexedFiles ==
    {f \in Files : Len(f.events) <= MaxEvents}
    \cup {[signature |-> "binlog", events |-> es] :
            es \in {<<"A_UPDATE", "TM_1", "TM_2", "ROWS_WRITE">>,
                    <<"A_UPDATE_QUOTED", "A_UPDATE", "TM_CUT">>,
                    <<"A_REPLACE", "TM_1", "TM_1", "ROWS_UPDATE">>}}

InitIndexer ==
    /\ file \in IndexedFiles
    /\ data = FileBytes(file)
    /\ pc = "none"
    /\ position = 0
    /\ headers = <<>>
    /\ cur_header_index = 0
    /\ table_map = <<>>
    /\ runs = <<>>
    /\ error = NoError
    /\ exists = {"mariadb-bin.000001"}
    /\ binlog_model = <<>>
    /\ query_model = <<>>
    /\ call = NoCall

NextIndexer ==
    \/ \E name \in BinlogNames : AddCall(name)
    \/ Construct
    \/ ParseHeadersStep
    \/ ListParseQueries
    \/ ParseEventStep
    \/ AddStore
    \/ AddRaise
    \/ \E name \in BinlogNames : Remove(name)
    \/ \E name \in BinlogNames : DeleteFile(name)

SpecIndexer == InitIndexer /\ [][NextIndexer]_vars

-----------------------------------------------------------------------------
(* What the claims speak of *)

CurrentHeader == current_header_at(cur_header_index)
NextHeader == next_header_at(cur_header_index)

\* the end offset of the event of header h
EndOf(h) == h.position + h.event_length

\* the step at hand is a call of _parse_event on the current header
ParseEventCalled ==
    /\ pc = "ready"
    /\ runs # <<>>
    /\ Len(runs') = Len(runs)
    /\ CurrentHeader # <<>>
    /\ vars' # vars

\* the queries the step at hand yields (none or one), and whether it raises
Yielded ==
    LET k == Len(runs)
    IN  SubSeq(runs'[k].out, Len(runs[k].out) + 1, Len(runs'[k].out))

Raised == runs'[Len(runs)].state = "raised"

\* every Query yielded so far, by any generator
AllYielded == UNION {{runs[k].out[j] : j \in 1..Len(runs[k].out)} : k \in 1..Len(runs)}

EmittedTypes == {"INSERT", "UPDATE", "DELETE", "REPLACE", "SELECT", "DDL"}

StartsWith(s, w) == Len(s) >= Len(w) /\ SubSeq(s, 1, Len(w)) = w

\* list(parser.parse_queries()) on a parser nothing has iterated yet: what one
\* uninterrupted pass from the first header yields
RECURSIVE YieldAll(_, _, _)
YieldAll(cur, tm, out) ==
    LET ch == current_header_at(cur)
    IN  IF ch = <<>> THEN out
        ELSE LET o == _parse_event(ch[1], cur, tm)
             IN  IF o.exc # None THEN out
                 ELSE YieldAll(o.cur, o.tm, out \o o.result)

CompleteSequence == YieldAll(0, <<>>, <<>>)

-----------------------------------------------------------------------------
(* C1 *)

\* C1: a call of _parse_event on a QueryEvent header whose body decodes to a
\* statement of a type other than TCL does not raise, yields exactly one
\* Query with the single source (database, table) of the decoded event,
\* query_start and query_end the body-relative offsets + position + 19,
\* related_events_end_pos = position + event_length, and moves the cursor by 1.
C1_QueryEventYieldsOneQuery ==
    [][
        (/\ ParseEventCalled
         /\ CurrentHeader[1].event_type = QueryEvent
         /\ QueryEventData(_get_body(CurrentHeader[1])).ok
         /\ QueryEventData(_get_body(CurrentHeader[1])).v.query_type # "TCL")
        => LET header == CurrentHeader[1]
               event == QueryEventData(_get_body(header)).v
           IN  /\ ~Raised
               /\ Len(Yielded) = 1
               /\ Yielded[1].sources = <<<<event.db, event.table>>>>
               /\ Yielded[1].query_start = event.query_start + header.position + 19
               /\ Yielded[1].query_end = event.query_end + header.position + 19
               /\ Yielded[1].related_events_end_pos = header.position + header.event_length
               /\ cur_header_index' = cur_header_index + 1
    ]_vars

-----------------------------------------------------------------------------
(* C2 *)

\* the headers are TableMapEvent(table_id=1, db="d", table="t"),
\* AnnotateRowsEvent(text="UPDATE t SET x=1"), UpdateRowsV1Event
C2_Input ==
    /\ pc = "ready"
    /\ Len(headers) = 3
    /\ headers[1].event_type = TableMapEvent
    /\ TableMapEventData(_get_body(headers[1])) =
           Return([table_id |-> 1, db |-> N_d, table |-> N_t])
    /\ headers[2].event_type = AnnotateRowsEvent
    /\ AnnotateRowsEventData(_get_body(headers[2])).v.query = T_UPDATE_T
    /\ headers[3].event_type = UpdateRowsV1Event

\* the one generator of the parser has been iterated to its end and has
\* yielded exactly one Query, of type UPDATE, whose related events end where
\* the UpdateRowsV1 event ends
C2_OneUpdateQuery ==
    /\ Len(runs) = 1
    /\ runs[1].state = "finished"
    /\ Len(runs[1].out) = 1
    /\ runs[1].out[1].type = "UPDATE"
    /\ runs[1].out[1].related_events_end_pos = EndOf(headers[3])

\* C2 (as claimed): on that input parse_queries yields exactly one Query, with
\* type UPDATE, sources [("d", "t")] and related_events_end_pos the end offset
\* of the UpdateRowsV1 event.
C2_SourcesFromLeadingTableMap ==
    (C2_Input /\ Len(runs) = 1 /\ runs[1].state = "finished")
        => (C2_OneUpdateQuery /\ runs[1].out[1].sources = <<<<N_d, N_t>>>>)

\* C2 (amended): on that input parse_queries yields exactly one Query, with
\* type UPDATE and related_events_end_pos the end offset of the UpdateRowsV1
\* event; its sources are the single (database, table) the classifier derives
\* from the annotated text, and the table-map cache is still empty: the
\* TableMapEvent before the AnnotateRowsEvent is skipped, not cached.
C2_SourcesFromClassifier ==
    (C2_Input /\ Len(runs) = 1 /\ runs[1].state = "finished")
        => /\ C2_OneUpdateQuery
           /\ runs[1].out[1].sources = <<parse_db_table_name_from_query(T_UPDATE_T)>>
           /\ table_map = <<>>

C2_Witness == C2_Input /\ C2_OneUpdateQuery

-----------------------------------------------------------------------------
(* C3 *)

\* C3: every Query parse_queries has yielded has a type among INSERT, UPDATE,
\* DELETE, REPLACE, SELECT, DDL: none is of type TCL, none has no type.
C3_NoTclQuery == \A q \in AllYielded : q.type \in EmittedTypes

-----------------------------------------------------------------------------
(* C4, C5 *)

\* C4: header indexing terminates.  The loop of _parse_headers decodes the
\* same bytes whenever it comes to the same position, so it terminates exactly
\* when it never comes back to a position it has decoded: stated as that.
C4_HeaderIndexingTerminates ==
    pc = "parse_headers" => \A j \in 1..Len(headers) : headers[j].position # position

\* C5: in the header list the positions are strictly increasing.
C5_PositionsStrictlyIncreasing ==
    \A j \in 1..(Len(headers) - 1) : headers[j + 1].position > headers[j].position

-----------------------------------------------------------------------------
(* C6 *)

\* C6 (as claimed): a generator made by a later call of parse_queries on the
\* same parser, iterated to its end, has yielded the complete Query sequence
\* from the first header.
C6_LaterCallReplays ==
    \A k \in 2..Len(runs) : runs[k].state = "finished" => runs[k].out = CompleteSequence

\* C6 (amended): parse_queries does not replay.  A later call goes on from the
\* cursor the earlier ones left: once a generator has been iterated to its
\* end the cursor stays at the end of the header list and every later
\* generator yields nothing, and no header gives a Query twice (in a file
\* whose header positions differ, no two yielded queries have the same
\* event_start).
C6_LaterCallContinues ==
    /\ \A k \in 1..Len(runs) :
           runs[k].state = "finished"
               => /\ cur_header_index >= Len(headers)
                  /\ \A l \in (k + 1)..Len(runs) : runs[l].out = <<>>
    /\ (\A i, j \in 1..Len(headers) : i # j => headers[i].position # headers[j].position)
           => \A k, l \in 1..Len(runs) :
                  \A i \in 1..Len(runs[k].out), j \in 1..Len(runs[l].out) :
                      <<k, i>> # <<l, j>>
                          => runs[k].out[i].event_start # runs[l].out[j].event_start

\* a first generator that yielded queries and ended, a second that ended
\* without yielding any
C6_Witness ==
    /\ Len(runs) = 2
    /\ runs[1].state = "finished" /\ runs[1].out # <<>>
    /\ runs[2].state = "finished" /\ runs[2].out = <<>>

-----------------------------------------------------------------------------
(* C7 *)

\* C7: for a QueryEvent whose database name in the body is "d1" and whose
\* text is "INSERT INTO d2.tbl VALUES (1)", the call of _parse_event yields
\* exactly one Query, with database "d2", table "tbl" and type INSERT.
C7_SchemaInStatementOverrides ==
    [][
        (/\ ParseEventCalled
         /\ CurrentHeader[1].event_type = QueryEvent
         /\ QueryEventData(_get_body(CurrentHeader[1])).ok
         /\ QueryEventData(_get_body(CurrentHeader[1])).v.query = T_INSERT_D2
         /\ LET body == _get_body(CurrentHeader[1])
                db_name_start == 13 + LittleEndian(PySlice(body, 11, 13))
            IN  PySlice(body, db_name_start, db_name_start + body[9]) = N_d1)
        => /\ Len(Yielded) = 1
           /\ Yielded[1].sources = <<<<N_d2, N_tbl>>>>
           /\ Yielded[1].type = "INSERT"
    ]_vars

-----------------------------------------------------------------------------
(* C8 *)

\* C8: a call of _parse_event on an AnnotateRowsEvent whose text has a
\* recognized type and whose next header is missing or neither a TableMapEvent
\* nor a Rows event yields a Query with exactly one source, the (database,
\* table) the classifier derives from the text (table "t" for
\* "UPDATE t SET x=1"), with related_events_end_pos the end offset of the
\* AnnotateRows event itself, and moves the cursor by 1.
C8_AnnotateAloneFallsBackToClassifier ==
    [][
        (/\ ParseEventCalled
         /\ CurrentHeader[1].event_type = AnnotateRowsEvent
         /\ AnnotateRowsEventData(_get_body(CurrentHeader[1])).v.query_type \in EmittedTypes
         /\ \/ NextHeader = <<>>
            \/ NextHeader[1].event_type \notin {TableMapEvent} \cup RowsEventTypes)
        => LET header == CurrentHeader[1]
               annotated == AnnotateRowsEventData(_get_body(header)).v
           IN  /\ Len(Yielded) = 1
               /\ Yielded[1].sources = <<<<annotated.db, annotated.table>>>>
               /\ annotated.query = T_UPDATE_T => Yielded[1].sources[1][2] = N_t
               /\ Yielded[1].related_events_end_pos = EndOf(header)
               /\ cur_header_index' = cur_header_index + 1
    ]_vars

-----------------------------------------------------------------------------
(* C9 *)

\* C9: when the decoding of a header or of an event body fails, the error
\* carries the byte offset and the generator has yielded no Query before it.
C9_DecodeFailureYieldsNothing ==
    \A k \in 1..Len(runs) :
        (runs[k].state = "raised" /\ error.exc = "struct.error")
            => (runs[k].out = <<>> /\ error.offset >= 0)

-----------------------------------------------------------------------------
(* C10 *)

\* C10: a call of _parse_event on a QueryEvent whose decoded text starts with
\* "COMMIT" or "ROLLBACK" does not raise, yields nothing and moves the cursor
\* by exactly 1.
C10_TclQueryEventYieldsNothing ==
    [][
        (/\ ParseEventCalled
         /\ CurrentHeader[1].event_type = QueryEvent
         /\ QueryEventData(_get_body(CurrentHeader[1])).ok
         /\ \/ StartsWith(QueryEventData(_get_body(CurrentHeader[1])).v.query, K_COMMIT)
            \/ StartsWith(QueryEventData(_get_body(CurrentHeader[1])).v.query, K_ROLLBACK))
        => /\ ~Raised
           /\ Yielded = <<>>
           /\ cur_header_index' = cur_header_index + 1
           /\ table_map' = table_map
    ]_vars

\* the cursor has passed a "COMMIT" and a "ROLLBACK" QueryEvent, which only
\* calls of _parse_event on them do, and the generator has yielded nothing
C10_Witness ==
    /\ pc = "ready"
    /\ cur_header_index = 2
    /\ \A j \in 1..2 : headers[j].event_type = QueryEvent
    /\ StartsWith(QueryEventData(_get_body(headers[1])).v.query, K_COMMIT)
    /\ StartsWith(QueryEventData(_get_body(headers[2])).v.query, K_ROLLBACK)
    /\ Len(runs) = 1
    /\ runs[1].state = "running"
    /\ runs[1].out = <<>>

-----------------------------------------------------------------------------
(* C11 *)

\* the buffer is shorter than 4 bytes or does not start with FE 62 69 6E
InvalidSignature == Len(data) < 4 \/ PySlice(data, 0, 4) # MagicNumber

\* C11: over a buffer shorter than 4 bytes or whose first 4 bytes are not
\* FE 62 69 6E the constructor fails (ValueError) before any header is
\* decoded: there is never a header list, a generator or a Query.
C11_InvalidSignatureFails ==
    InvalidSignature
        => /\ pc \in {"new", "failed"}
           /\ pc = "failed" => error.exc = "ValueError"
           /\ headers = <<>>
           /\ runs = <<>>
           /\ AllYielded = {}

\* the constructor has failed on a buffer with another signature, long
\* enough to hold a header after it
C11_Witness ==
    /\ pc = "failed"
    /\ InvalidSignature
    /\ Len(data) >= 4 + HeaderSize

-----------------------------------------------------------------------------
(* C12 *)

\* the header a yielded Query was made for, and what its body decodes to
OwningHeader(q) == headers[CHOOSE j \in 1..Len(headers) : headers[j].position = q.event_start]

Decoded(header) ==
    IF header.event_type = QueryEvent
    THEN QueryEventData(_get_body(header)).v
    ELSE AnnotateRowsEventData(_get_body(header)).v

\* C12: the text of a yielded Query is the decoded text when that has at
\* most 500 characters (is_truncated false), else its first 200 characters,
\* "..." and its last 300 characters, 503 in all (is_truncated true);
\* query_start and query_end are the offsets decoded for the whole text,
\* position + 19 added, in both cases.
C12_TruncationOver500 ==
    \A q \in AllYielded :
        LET header == OwningHeader(q)
            event == Decoded(header)
            text == event.query
            L == Len(text)
        IN  /\ L > 500 => /\ q.query = SubSeq(text, 1, 200) \o <<46, 46, 46>>
                                            \o SubSeq(text, L - 299, L)
                          /\ Len(q.query) = 503
                          /\ q.is_truncated
            /\ L <= 500 => (q.query = text /\ ~q.is_truncated)
            /\ q.query_start = event.query_start + header.position + 19
            /\ q.query_end = event.query_end + header.position + 19

\* one generator has yielded a Query whose text of 500 characters is whole
\* and one whose text of 700 characters is cut
C12_Witness ==
    \E k \in 1..Len(runs) :
        \E i, j \in 1..Len(runs[k].out) :
            /\ Len(Decoded(OwningHeader(runs[k].out[i])).query) = 500
            /\ ~runs[k].out[i].is_truncated
            /\ Len(Decoded(OwningHeader(runs[k].out[j])).query) = 700
            /\ runs[k].out[j].is_truncated

-----------------------------------------------------------------------------
(* C13 *)

\* C13: every header in the list of headers has event_length >= 19.
C13_EventLengthAtLeast19 ==
    \A j \in 1..Len(headers) : headers[j].event_length >= 19

-----------------------------------------------------------------------------
(* C14 *)

\* C14: add(name) for a name recorded as indexed returns without raising and
\* without reading the file, whether or not the file still exists, and
\* leaves the rows of QueryModel and of BinlogModel as they are; and no step
\* records a name a second time.
C14_AddOfRecordedNameIsNoOp ==
    [][
        /\ \A name \in BinlogNames :
               (Recorded(name) /\ AddCall(name))
                   => /\ call' = [op |-> "add", name |-> name, state |-> "skipped",
                                  exc |-> None]
                      /\ query_model' = query_model
                      /\ binlog_model' = binlog_model
                      /\ runs' = runs /\ pc' = pc
        /\ \A i, j \in 1..Len(binlog_model') :
               binlog_model'[i] = binlog_model'[j] => i = j
    ]_vars

\* add has returned at once for a recorded name whose file is gone, with the
\* rows of its first indexing still stored
C14_Witness ==
    /\ call.op = "add"
    /\ call.state = "skipped"
    /\ Recorded(call.name)
    /\ call.name \notin exists
    /\ query_model # <<>>

-----------------------------------------------------------------------------
(* The AnnotateRows step, as the claims C15 to C20 speak of it *)

\* how many headers in a row, from the j-th of the list on, have a type in types
RECURSIVE RunOf(_, _)
RunOf(types, j) ==
    IF j <= Len(headers) /\ headers[j].event_type \in types
    THEN 1 + RunOf(types, j + 1)
    ELSE 0

\* the TableMapEvents that follow the current header, and the Rows events
\* that follow those
TableMapsAhead == RunOf({TableMapEvent}, cur_header_index + 2)
RowsAhead == RunOf(RowsEventTypes, cur_header_index + 2 + TableMapsAhead)

\* the step at hand is a call of _parse_event on an AnnotateRowsEvent, and
\* the call returns
AnnotateRowsStep ==
    /\ ParseEventCalled
    /\ CurrentHeader[1].event_type = AnnotateRowsEvent
    /\ ~Raised

-----------------------------------------------------------------------------
(* C15 *)

\* C15: in an AnnotateRows step, when the header after the TableMapEvents is
\* a WriteRowsV1 / UpdateRowsV1 / DeleteRowsV1 event the Query yielded has
\* type INSERT / UPDATE / DELETE, whatever the text and whatever Rows events
\* come after that one; otherwise the type is the one the classifier gives
\* the text, and nothing is yielded when it gives none.
C15_FirstRowsEventFixesType ==
    [][
        AnnotateRowsStep
        => LET first == cur_header_index + 2 + TableMapsAhead
               classified ==
                   type_of_query(AnnotateRowsEventData(_get_body(CurrentHeader[1])).v.query)
           IN  IF RowsAhead >= 1
               THEN /\ Len(Yielded) = 1
                    /\ headers[first].event_type = WriteRowsV1Event
                           => Yielded[1].type = "INSERT"
                    /\ headers[first].event_type = UpdateRowsV1Event
                           => Yielded[1].type = "UPDATE"
                    /\ headers[first].event_type = DeleteRowsV1Event
                           => Yielded[1].type = "DELETE"
               ELSE IF classified = None THEN Yielded = <<>>
               ELSE Len(Yielded) = 1 /\ Yielded[1].type = classified
    ]_vars

\* a "REPLACE INTO t ..." statement followed by a WriteRowsV1 and then a
\* DeleteRowsV1 event has been yielded as an INSERT
C15_Witness ==
    /\ Len(headers) = 3
    /\ headers[2].event_type = WriteRowsV1Event
    /\ headers[3].event_type = DeleteRowsV1Event
    /\ \E q \in AllYielded :
           /\ q.query = T_REPLACE_T
           /\ q.event_start = headers[1].position
           /\ q.type = "INSERT"

-----------------------------------------------------------------------------
(* C16 *)

\* what the j-th TableMapEvent after the current header decodes to
TableMapAhead(j) == TableMapEventData(_get_body(headers[cur_header_index + 1 + j])).v

\* C16: when an AnnotateRows step consumes n >= 1 TableMapEvents, the Query
\* it yields has n sources, the i-th the entry of the table-map cache for the
\* table_id of the i-th TableMapEvent consumed; that entry is the (database,
\* table) of the last TableMapEvent consumed with that table_id.  When n = 0
\* the one source is the (database, table) the classifier derives from the
\* text.
C16_SourcesFromTableMaps ==
    [][
        (AnnotateRowsStep /\ Yielded # <<>>)
        => LET n == TableMapsAhead
               annotated == AnnotateRowsEventData(_get_body(CurrentHeader[1])).v
               Last(id) == CHOOSE j \in 1..n :
                               /\ TableMapAhead(j).table_id = id
                               /\ \A l \in (j + 1)..n : TableMapAhead(l).table_id # id
           IN  IF n >= 1
               THEN /\ Len(Yielded[1].sources) = n
                    /\ \A i \in 1..n :
                           LET id == TableMapAhead(i).table_id
                           IN  /\ Yielded[1].sources[i] = table_map'[id]
                               /\ table_map'[id] = <<TableMapAhead(Last(id)).db,
                                                     TableMapAhead(Last(id)).table>>
               ELSE Yielded[1].sources =
                        <<parse_db_table_name_from_query(annotated.query)>>
    ]_vars

\* a Query has been yielded with the sources of three TableMapEvents, the
\* first and the last of them binding table id 1 to different tables
C16_Witness ==
    /\ Len(headers) = 4
    /\ \A j \in 2..4 : headers[j].event_type = TableMapEvent
    /\ TableMapEventData(_get_body(headers[2])).v = [table_id |-> 1, db |-> N_d2, table |-> N_tbl]
    /\ TableMapEventData(_get_body(headers[4])).v = [table_id |-> 1, db |-> N_d, table |-> N_t]
    /\ \E q \in AllYielded :
           /\ Len(q.sources) = 3
           /\ q.sources[1] = <<N_d, N_t>>
           /\ q.sources[2] = <<N_e, N_u>>
           /\ q.sources[3] = <<N_d, N_t>>

-----------------------------------------------------------------------------
(* C17 *)

\* the table-map and rows events the AnnotateRows step at hand consumes
Consumed == TableMapsAhead + RowsAhead

\* C17: the Query of an AnnotateRows step that consumes at least one
\* table-map or rows event has related_events_end_pos = position +
\* event_length of the last event consumed: the last Rows event of the run,
\* or the last TableMapEvent when no Rows event follows.
C17_RelatedEventsEndAtLastConsumed ==
    [][
        (AnnotateRowsStep /\ Yielded # <<>> /\ Consumed >= 1)
        => LET last == headers[cur_header_index + 1 + Consumed]
           IN  /\ Yielded[1].related_events_end_pos = last.position + last.event_length
               /\ RowsAhead >= 1 => last.event_type \in RowsEventTypes
               /\ RowsAhead = 0 => last.event_type = TableMapEvent
    ]_vars

\* a Query has been yielded for a statement followed by one TableMapEvent and
\* two Rows events, with the end of the second Rows event
C17_Witness ==
    /\ Len(headers) = 4
    /\ headers[1].event_type = AnnotateRowsEvent
    /\ headers[2].event_type = TableMapEvent
    /\ headers[3].event_type \in RowsEventTypes
    /\ headers[4].event_type \in RowsEventTypes
    /\ \E q \in AllYielded :
           /\ q.event_start = headers[1].position
           /\ q.related_events_end_pos = EndOf(headers[4])
           /\ q.related_events_end_pos > EndOf(headers[1])

-----------------------------------------------------------------------------
(* C18 *)

\* C18 (as claimed): the AnnotateRows step at header index i that consumes
\* k >= 1 table-map and rows events leaves the cursor at index i + k + 1,
\* past every event consumed.
C18_CursorPastConsumed ==
    [][
        (AnnotateRowsStep /\ Consumed >= 1)
        => cur_header_index' = cur_header_index + Consumed + 1
    ]_vars

\* C18 (amended): the AnnotateRows step at header index i that consumes
\* k >= 1 table-map and rows events leaves the cursor at index i + k, on the
\* last event consumed, a TableMapEvent or a Rows event: the step does not
\* advance again, and the next step has that event as its current header.
C18_CursorOnLastConsumed ==
    [][
        (AnnotateRowsStep /\ Consumed >= 1)
        => /\ cur_header_index' = cur_header_index + Consumed
           /\ cur_header_index' < Len(headers)
           /\ headers[cur_header_index' + 1].event_type
                  \in {TableMapEvent} \cup RowsEventTypes
    ]_vars

\* the generator has just yielded the Query of an AnnotateRowsEvent (index 0)
\* followed by a TableMapEvent and a Rows event, and the cursor is at index 2
C18_Witness ==
    /\ Len(headers) = 3
    /\ headers[1].event_type = AnnotateRowsEvent
    /\ headers[2].event_type = TableMapEvent
    /\ headers[3].event_type \in RowsEventTypes
    /\ Len(runs) = 1
    /\ runs[1].state = "suspended"
    /\ Len(runs[1].out) = 1
    /\ cur_header_index = 2

-----------------------------------------------------------------------------
(* C19 *)

\* C19: a call of _parse_event whose current header is neither a QueryEvent
\* nor an AnnotateRowsEvent (a TableMapEvent, a Rows event, or a type outside
\* the six recognized) does not raise, yields nothing, moves the cursor by
\* exactly 1 and leaves the table-map cache as it is; so every Query yielded
\* has the position of a QueryEvent or AnnotateRowsEvent header, the current
\* one, as its event_start.
C19_OtherEventsAreSkipped ==
    [][
        ParseEventCalled
        => /\ CurrentHeader[1].event_type \notin {QueryEvent, AnnotateRowsEvent}
                  => /\ ~Raised
                     /\ Yielded = <<>>
                     /\ cur_header_index' = cur_header_index + 1
                     /\ table_map' = table_map
           /\ \A j \in 1..Len(Yielded) :
                  /\ Yielded[j].event_start = CurrentHeader[1].position
                  /\ CurrentHeader[1].event_type \in {QueryEvent, AnnotateRowsEvent}
    ]_vars

\* the generator has gone through a TableMapEvent, an AnnotateRowsEvent with
\* its Rows event, that Rows event again and an event of type 15: one Query,
\* and the first TableMapEvent is not in the cache
C19_Witness ==
    /\ Len(headers) = 4
    /\ headers[1].event_type = TableMapEvent
    /\ headers[2].event_type = AnnotateRowsEvent
    /\ headers[3].event_type \in RowsEventTypes
    /\ headers[4].event_type = FormatDescriptionEvent
    /\ cur_header_index = 4
    /\ Len(runs) = 1
    /\ Len(runs[1].out) = 1
    /\ runs[1].out[1].event_start = headers[2].position
    /\ table_map = <<>>

-----------------------------------------------------------------------------
(* C20 *)

\* the headers lie one after the other in the file
HeadersInOrder ==
    \A i, j \in 1..Len(headers) : i < j => headers[i].position < headers[j].position

RECURSIVE Concat(_)
Concat(ss) == IF ss = <<>> THEN <<>> ELSE Head(ss) \o Concat(Tail(ss))

\* every Query yielded so far, in the order of yielding
YieldedInOrder == Concat([k \in 1..Len(runs) |-> runs[k].out])

\* C20: a call of _parse_event that returns moves the cursor forward, by the
\* number of events its lookahead consumed or else by 1, never past the end
\* of the header list, and yields at most one Query, which the header that
\* was current owns; no step of the parser moves the cursor back.  So the
\* generators stop within len(headers) calls, and the Queries come out in
\* strictly increasing order of their owning header, one per header at most.
C20_CursorStrictlyIncreases ==
    /\ [][
           /\ cur_header_index' >= cur_header_index
           /\ (ParseEventCalled /\ ~Raised)
              => /\ cur_header_index' > cur_header_index
                 /\ cur_header_index' - cur_header_index
                        = IF CurrentHeader[1].event_type = AnnotateRowsEvent /\ Consumed >= 1
                          THEN Consumed
                          ELSE 1
                 /\ cur_header_index' <= Len(headers)
                 /\ Len(Yielded) <= 1
                 /\ \A j \in 1..Len(Yielded) :
                        Yielded[j].event_start = CurrentHeader[1].position
       ]_vars
    /\ [](HeadersInOrder
          => \A i, j \in 1..Len(YieldedInOrder) :
                 i < j => YieldedInOrder[i].event_start < YieldedInOrder[j].event_start)

\* a generator has gone through the whole list, in fewer calls than there are
\* headers, and has yielded two Queries of different headers
C20_Witness ==
    /\ HeadersInOrder
    /\ Len(headers) >= 4
    /\ \E j \in 1..Len(headers) : headers[j].event_type = TableMapEvent
    /\ cur_header_index = Len(headers)
    /\ Generator = "finished"
    /\ Len(YieldedInOrder) = 2
    /\ YieldedInOrder[1].event_start < YieldedInOrder[2].event_start

-----------------------------------------------------------------------------
(* C21 *)

\* C21: the offsets of the text of every Query yielded lie inside the event
\* that owns it: event_start + 19 <= query_start <= query_end <=
\* event_start + event_length, whatever body and event_length the header
\* has (a body shorter than 4 bytes, an event_length below 19 or past the
\* end of the buffer).
C21_OffsetsInsideEvent ==
    \A q \in AllYielded :
        /\ q.event_start + HeaderSize <= q.query_start
        /\ q.query_start <= q.query_end
        /\ q.query_end <= q.event_start + q.event_length

=============================================================================
